---- MODULE Spec2Model ----
(***************************************************************************)
(* Model of supabase_models/models.py: SupabaseBaseModel (construction     *)
(* with field validation and the required-column check, dump, load) and    *)
(* the two entity definitions Category and Product.                        *)
(*                                                                         *)
(* Values are records [kind, val].  Text is a sequence of one-character    *)
(* strings so that formatting and parsing are computed, not assumed.       *)
(***************************************************************************)
EXTENDS Integers, Sequences, FiniteSets, TLC

(* ------------------------------------------------------------------ *)
(* Bounds of the model                                                  *)
(* ------------------------------------------------------------------ *)

\* most keyword arguments one Construct call supplies
MaxSupplied == 3
\* most field assignments made to one instance after construction
MaxAssign == 1
\* most raw rows in one Load payload
MaxRows == 2

(* ------------------------------------------------------------------ *)
(* Characters and numbers                                               *)
(* ------------------------------------------------------------------ *)

DigitChars == <<"0", "1", "2", "3", "4", "5", "6", "7", "8", "9">>

HexChars == DigitChars \o <<"a", "b", "c", "d", "e", "f">>

UpperChars ==
    {"A", "B", "C", "D", "E", "F", "G", "H", "I", "J", "K", "L", "M",
     "N", "O", "P", "Q", "R", "S", "T", "U", "V", "W", "X", "Y", "Z"}

IsDigit(c) == \E i \in 1..10 : DigitChars[i] = c

DigitVal(c) == (CHOOSE i \in 1..10 : DigitChars[i] = c) - 1

AllDigits(s) == \A i \in 1..Len(s) : IsDigit(s[i])

RECURSIVE NatToChars(_)
NatToChars(n) ==
    IF n < 10 THEN <<DigitChars[n + 1]>>
    ELSE NatToChars(n \div 10) \o <<DigitChars[(n % 10) + 1]>>

RECURSIVE CharsToNat(_)
CharsToNat(s) ==
    IF Len(s) = 0 THEN 0
    ELSE 10 * CharsToNat(SubSeq(s, 1, Len(s) - 1)) + DigitVal(s[Len(s)])

\* "%0<w>d" % n
RECURSIVE Pad(_, _)
Pad(n, w) ==
    LET d == NatToChars(n)
    IN  IF Len(d) >= w THEN d ELSE <<"0">> \o Pad(n, w - 1)

RECURSIVE Pow10(_)
Pow10(k) == IF k = 0 THEN 1 ELSE 10 * Pow10(k - 1)

RECURSIVE Repeat(_, _)
Repeat(c, k) == IF k <= 0 THEN <<>> ELSE <<c>> \o Repeat(c, k - 1)

\* position of the first c in s, 0 when there is none
IndexOf(s, c) ==
    IF \E i \in 1..Len(s) : s[i] = c
    THEN CHOOSE i \in 1..Len(s) : s[i] = c /\ \A j \in 1..(i - 1) : s[j] # c
    ELSE 0

(* ------------------------------------------------------------------ *)
(* Values                                                               *)
(* ------------------------------------------------------------------ *)

None == [kind |-> "none", val |-> <<>>]
IntV(n) == [kind |-> "int", val |-> n]
\* a float, held as a whole number of hundredths
FloatV(h) == [kind |-> "float", val |-> h]
Str(s) == [kind |-> "str", val |-> s]
\* decimal.Decimal: sign (0 or 1), coefficient, exponent
DecimalV(sign, coef, exp) == [kind |-> "decimal", val |-> <<sign, coef, exp>>]
\* naive datetime: year, month, day, hour, minute, second, microsecond
DateTimeV(y, mo, d, h, mi, s, us) == [kind |-> "datetime", val |-> <<y, mo, d, h, mi, s, us>>]
DateV(y, mo, d) == [kind |-> "date", val |-> <<y, mo, d>>]
TimeV(h, mi, s, us) == [kind |-> "time", val |-> <<h, mi, s, us>>]
\* uuid.UUID: its 32 hexadecimal digits
UuidV(hex) == [kind |-> "uuid", val |-> hex]
\* bytes: a sequence of numbers 0..255
BytesV(b) == [kind |-> "bytes", val |-> b]
\* a ProductStatusEnum member, named by its value
EnumV(s) == [kind |-> "enum", val |-> s]
\* a raw mapping (dict) and a list
DictV(m) == [kind |-> "dict", val |-> m]
ListV(l) == [kind |-> "list", val |-> l]
\* a model instance held as a field value
ModelV(inst) == [kind |-> "model", val |-> inst]
\* a response envelope: an object exposing .data
ResponseV(data) == [kind |-> "response", val |-> data]

(* ------------------------------------------------------------------ *)
(* _SERIALIZERS and serialize_fields                                    *)
(* ------------------------------------------------------------------ *)

\* date.isoformat()
IsoDate(d) == Pad(d[1], 4) \o <<"-">> \o Pad(d[2], 2) \o <<"-">> \o Pad(d[3], 2)

\* time.isoformat(): the fraction is written only when it is not zero
IsoTime(t) ==
    Pad(t[1], 2) \o <<":">> \o Pad(t[2], 2) \o <<":">> \o Pad(t[3], 2)
    \o (IF t[4] = 0 THEN <<>> ELSE <<".">> \o Pad(t[4], 6))

\* datetime.isoformat()
IsoDateTime(dt) ==
    IsoDate(SubSeq(dt, 1, 3)) \o <<"T">> \o IsoTime(SubSeq(dt, 4, 7))

\* str(Decimal), given the coefficient's digits, the number of digits left of
\* the point and the place of the point
DecimalLayout(sign, digits, leftdigits, dotplace) ==
    (IF sign = 1 THEN <<"-">> ELSE <<>>)
    \o (IF dotplace <= 0 THEN <<"0", ".">> \o Repeat("0", -dotplace) \o digits
        ELSE IF dotplace >= Len(digits)
             THEN digits \o Repeat("0", dotplace - Len(digits))
             ELSE SubSeq(digits, 1, dotplace) \o <<".">>
                  \o SubSeq(digits, dotplace + 1, Len(digits)))
    \o (IF leftdigits = dotplace THEN <<>>
        ELSE IF leftdigits < dotplace
             THEN <<"E", "-">> \o NatToChars(dotplace - leftdigits)
             ELSE <<"E", "+">> \o NatToChars(leftdigits - dotplace))

\* plain notation when the exponent is <= 0 and the number is not too small,
\* scientific notation (one digit left of the point) otherwise
DotPlace(exp, leftdigits) == IF exp <= 0 /\ leftdigits > -6 THEN leftdigits ELSE 1

\* str(Decimal)
DecimalStr(d) ==
    DecimalLayout(d[1], NatToChars(d[2]), d[3] + Len(NatToChars(d[2])),
                  DotPlace(d[3], d[3] + Len(NatToChars(d[2]))))

\* str(UUID): 8-4-4-4-12 lower-case hexadecimal digits
UuidStr(hex) ==
    LET h(i, j) == [k \in 1..(j - i + 1) |-> HexChars[hex[i + k - 1] + 1]]
    IN  h(1, 8) \o <<"-">> \o h(9, 12) \o <<"-">> \o h(13, 16) \o <<"-">>
        \o h(17, 20) \o <<"-">> \o h(21, 32)

B64Alphabet ==
    <<"A", "B", "C", "D", "E", "F", "G", "H", "I", "J", "K", "L", "M",
      "N", "O", "P", "Q", "R", "S", "T", "U", "V", "W", "X", "Y", "Z",
      "a", "b", "c", "d", "e", "f", "g", "h", "i", "j", "k", "l", "m",
      "n", "o", "p", "q", "r", "s", "t", "u", "v", "w", "x", "y", "z">>
    \o DigitChars \o <<"+", "/">>

\* base64.b64encode(v).decode("utf-8")
RECURSIVE B64Encode(_)
B64Encode(b) ==
    LET c(n, shift) == B64Alphabet[((n \div shift) % 64) + 1]
    IN  IF Len(b) = 0 THEN <<>>
        ELSE IF Len(b) = 1
             THEN LET n == b[1] * 65536
                  IN  <<c(n, 262144), c(n, 4096), "=", "=">>
        ELSE IF Len(b) = 2
             THEN LET n == b[1] * 65536 + b[2] * 256
                  IN  <<c(n, 262144), c(n, 4096), c(n, 64), "=">>
        ELSE LET n == b[1] * 65536 + b[2] * 256 + b[3]
             IN  <<c(n, 262144), c(n, 4096), c(n, 64), c(n, 1)>>
                 \o B64Encode(SubSeq(b, 4, Len(b)))

\* a field serializer that knows no entry for bytes
SerializeNoBytes(value) ==
    CASE value.kind = "datetime" -> Str(IsoDateTime(value.val))
      [] value.kind = "date"     -> Str(IsoDate(value.val))
      [] value.kind = "time"     -> Str(IsoTime(value.val))
      [] value.kind = "decimal"  -> Str(DecimalStr(value.val))
      [] value.kind = "uuid"     -> Str(UuidStr(value.val))
      [] OTHER                   -> value

\* a field serializer that writes a timestamp as its date only
SerializeDateOnly(value) ==
    CASE value.kind = "datetime" -> Str(IsoDate(SubSeq(value.val, 1, 3)))
      [] value.kind = "date"     -> Str(IsoDate(value.val))
      [] value.kind = "time"     -> Str(IsoTime(value.val))
      [] value.kind = "decimal"  -> Str(DecimalStr(value.val))
      [] value.kind = "uuid"     -> Str(UuidStr(value.val))
      [] value.kind = "bytes"    -> Str(B64Encode(value.val))
      [] OTHER                   -> value

serialize_fields(value) ==
    CASE value.kind = "datetime" -> Str(IsoDateTime(value.val))
      [] value.kind = "date"     -> Str(IsoDate(value.val))
      [] value.kind = "time"     -> Str(IsoTime(value.val))
      [] value.kind = "decimal"  -> Str(DecimalStr(value.val))
      [] value.kind = "uuid"     -> Str(UuidStr(value.val))
      [] value.kind = "bytes"    -> Str(B64Encode(value.val))
      [] OTHER                   -> value

(* ------------------------------------------------------------------ *)
(* Entity definitions: Category and Product                             *)
(* ------------------------------------------------------------------ *)

Classes == {"Category", "Product"}

\* model_fields, in declaration order
Fields(cls) ==
    IF cls = "Category" THEN <<"id", "name", "nickname">>
    ELSE <<"id", "name", "sku", "price", "category_id", "status",
           "created_at", "categories">>

FieldSet(cls) == {Fields(cls)[i] : i \in 1..Len(Fields(cls))}

\* _required_columns
RequiredColumns(cls) ==
    IF cls = "Category" THEN <<"name">> ELSE <<"name", "sku">>

\* the declared constraints
NameMaxLength == 100
NicknameMaxLength == 14
NicknameMinLength == 4
SkuMaxLength == 20
StatusMaxLength == 8
\* gt=1.0, in hundredths
PriceGt == 100

\* ProductStatusEnum: the values of its members
StatusValues ==
    {<<"d", "r", "a", "f", "t">>, <<"a", "c", "t", "i", "v", "e">>,
     <<"a", "r", "c", "h", "i", "v", "e", "d">>}

\* pattern=r"^[A-Z]{2,3}-[0-9]{3,4}$", matched against the whole text
SkuPattern(s) ==
    \E a \in 2..3, b \in 3..4 :
        /\ Len(s) = a + 1 + b
        /\ \A i \in 1..a : s[i] \in UpperChars
        /\ s[a + 1] = "-"
        /\ \A i \in (a + 2)..(a + 1 + b) : IsDigit(s[i])

(* ------------------------------------------------------------------ *)
(* Field validation: what the declared annotation accepts, and the      *)
(* value it stores (the validation library's default, lax mode)         *)
(* ------------------------------------------------------------------ *)

Valid(v) == [ok |-> TRUE, val |-> v]
Invalid == [ok |-> FALSE, val |-> None]

IsNegative(s) == Len(s) > 0 /\ s[1] = "-"

\* s without its sign
StripSign(s) == IF Len(s) > 0 /\ s[1] \in {"+", "-"} THEN Tail(s) ELSE s

\* s up to its first c, and s after it
Before(s, c) == IF IndexOf(s, c) = 0 THEN s ELSE SubSeq(s, 1, IndexOf(s, c) - 1)
After(s, c) == IF IndexOf(s, c) = 0 THEN <<>> ELSE SubSeq(s, IndexOf(s, c) + 1, Len(s))

IntOf(neg, intp, fracp) ==
    IF Len(intp) > 0 /\ AllDigits(intp) /\ \A i \in 1..Len(fracp) : fracp[i] = "0"
    THEN Valid(IntV(IF neg THEN -CharsToNat(intp) ELSE CharsToNat(intp)))
    ELSE Invalid

\* text -> int: an optional sign, digits, and an optional all-zero fraction
ParseInt(s) == IntOf(IsNegative(s), Before(StripSign(s), "."), After(StripSign(s), "."))

DecimalOf(neg, intp, fracp, eneg, edig) ==
    IF /\ Len(intp) + Len(fracp) > 0
       /\ AllDigits(intp) /\ AllDigits(fracp)
       /\ Len(edig) > 0 /\ AllDigits(edig)
    THEN Valid(DecimalV(IF neg THEN 1 ELSE 0, CharsToNat(intp \o fracp),
                        (IF eneg THEN -CharsToNat(edig) ELSE CharsToNat(edig)) - Len(fracp)))
    ELSE Invalid

\* the mantissa and the exponent's text, the exponent being 0 when not written
DecimalOfParts(neg, mant, etxt) ==
    DecimalOf(neg, Before(mant, "."), After(mant, "."), IsNegative(etxt), StripSign(etxt))

ExponentMark(body) == IF IndexOf(body, "E") # 0 THEN "E" ELSE "e"

DecimalOfBody(neg, body, mark) ==
    DecimalOfParts(neg, Before(body, mark),
                   IF IndexOf(body, mark) = 0 THEN <<"0">> ELSE After(body, mark))

\* text -> Decimal, as Decimal(str) reads a finite number
ParseDecimal(s) == DecimalOfBody(IsNegative(s), StripSign(s), ExponentMark(StripSign(s)))

DaysInMonth(y, m) ==
    IF m = 2 THEN (IF (y % 4 = 0 /\ y % 100 # 0) \/ y % 400 = 0 THEN 29 ELSE 28)
    ELSE IF m \in {4, 6, 9, 11} THEN 30 ELSE 31

NoParse == [ok |-> FALSE, val |-> <<>>]

DateOf(y, m, d) ==
    IF m \in 1..12 /\ d \in 1..DaysInMonth(y, m) THEN [ok |-> TRUE, val |-> <<y, m, d>>]
    ELSE NoParse

\* "YYYY-MM-DD" -> <<y, m, d>>
ParseDate(s) ==
    IF /\ Len(s) = 10 /\ s[5] = "-" /\ s[8] = "-"
       /\ AllDigits(SubSeq(s, 1, 4) \o SubSeq(s, 6, 7) \o SubSeq(s, 9, 10))
    THEN DateOf(CharsToNat(SubSeq(s, 1, 4)), CharsToNat(SubSeq(s, 6, 7)),
                CharsToNat(SubSeq(s, 9, 10)))
    ELSE NoParse

TimeOf(h, mi, se, us) ==
    IF h < 24 /\ mi < 60 /\ se < 60 THEN [ok |-> TRUE, val |-> <<h, mi, se, us>>]
    ELSE NoParse

\* the form "HH:MM", "HH:MM:SS" or "HH:MM:SS.f" with 1 to 6 digits f
TimeForm(s, n) ==
    /\ n >= 5 /\ s[3] = ":" /\ AllDigits(SubSeq(s, 1, 2) \o SubSeq(s, 4, 5))
    /\ n > 5 => (n >= 8 /\ s[6] = ":" /\ AllDigits(SubSeq(s, 7, 8)))
    /\ n > 8 => (n \in 10..15 /\ s[9] = "." /\ AllDigits(SubSeq(s, 10, n)))

\* text -> <<h, mi, s, us>>
ParseTime(s) ==
    IF TimeForm(s, Len(s))
    THEN TimeOf(CharsToNat(SubSeq(s, 1, 2)), CharsToNat(SubSeq(s, 4, 5)),
                IF Len(s) >= 8 THEN CharsToNat(SubSeq(s, 7, 8)) ELSE 0,
                IF Len(s) >= 10
                THEN CharsToNat(SubSeq(s, 10, Len(s))) * Pow10(15 - Len(s)) ELSE 0)
    ELSE NoParse

DateTimeOf(d, t) ==
    IF d.ok /\ t.ok THEN Valid([kind |-> "datetime", val |-> d.val \o t.val]) ELSE Invalid

\* text -> datetime: an ISO 8601 date, "T" or a space, and a time; a date alone
\* is read as that day's midnight
ParseDateTime(s) ==
    IF Len(s) = 10 THEN DateTimeOf(ParseDate(s), TimeOf(0, 0, 0, 0))
    ELSE IF Len(s) > 11 /\ s[11] \in {"T", "t", " ", "_"}
         THEN DateTimeOf(ParseDate(SubSeq(s, 1, 10)), ParseTime(SubSeq(s, 12, Len(s))))
         ELSE Invalid

\* int | None
IntField(v) ==
    CASE v.kind = "none"    -> Valid(v)
      [] v.kind = "int"     -> Valid(v)
      [] v.kind = "str"     -> ParseInt(v.val)
      [] v.kind = "float"   -> IF v.val % 100 = 0 THEN Valid(IntV(v.val \div 100)) ELSE Invalid
      [] v.kind \in {"datetime", "dict", "list", "model"} -> Invalid

\* a text field that also takes numbers, writing them out
StrFieldCoercing(v, minLen, maxLen) ==
    CASE v.kind = "none" -> Valid(v)
      [] v.kind = "str"  ->
            IF Len(v.val) >= minLen /\ Len(v.val) <= maxLen THEN Valid(v) ELSE Invalid
      [] v.kind = "int"  ->
            IF v.val >= 0 /\ Len(NatToChars(v.val)) >= minLen
            THEN Valid(Str(NatToChars(v.val))) ELSE Invalid
      [] v.kind \in {"float", "decimal", "datetime", "dict", "list", "model"} -> Invalid

\* str | None with min_length / max_length: text only, numbers are not written out
StrField(v, minLen, maxLen) ==
    CASE v.kind = "none" -> Valid(v)
      [] v.kind = "str"  ->
            IF Len(v.val) >= minLen /\ Len(v.val) <= maxLen THEN Valid(v) ELSE Invalid
      [] v.kind \in {"int", "float", "decimal", "datetime", "dict", "list", "model"} -> Invalid

\* the pattern, checked on a text that passed the length check
CheckPattern(r) ==
    IF r.ok /\ r.val.kind = "str" /\ ~SkuPattern(r.val.val) THEN Invalid ELSE r

\* sku: max_length=20 and the pattern
SkuField(v) == CheckPattern(StrField(v, 0, SkuMaxLength))

\* value > 1.0 for a Decimal or a float
GreaterThanOne(v) ==
    IF v.kind = "float" THEN v.val > PriceGt
    ELSE /\ v.val[1] = 0
         /\ IF v.val[3] >= 0 THEN v.val[2] * Pow10(v.val[3]) > 1
            ELSE v.val[2] > Pow10(-v.val[3])

\* a bound that lets the boundary value through (>= instead of >)
GreaterOrEqualOne(v) ==
    IF v.kind = "float" THEN v.val >= PriceGt
    ELSE /\ v.val[1] = 0
         /\ IF v.val[3] >= 0 THEN v.val[2] * Pow10(v.val[3]) >= 1
            ELSE v.val[2] >= Pow10(-v.val[3])

\* Decimal | float: a Decimal or a float is kept as it is, a whole number
\* becomes a float, text is read as a Decimal
PriceType(v) ==
    CASE v.kind \in {"none", "decimal", "float"} -> Valid(v)
      [] v.kind = "int" -> Valid(FloatV(v.val * 100))
      [] v.kind = "str" -> ParseDecimal(v.val)
      [] v.kind \in {"datetime", "dict", "list", "model"} -> Invalid

\* a price check that lets the boundary value through
CheckBoundInclusive(r) ==
    IF r.ok /\ r.val.kind # "none" /\ ~GreaterOrEqualOne(r.val) THEN Invalid ELSE r

\* gt=1.0
CheckBound(r) ==
    IF r.ok /\ r.val.kind # "none" /\ ~GreaterThanOne(r.val) THEN Invalid ELSE r

\* Decimal | float | None, gt=1.0
PriceField(v) == CheckBound(PriceType(v))

\* ProductStatusEnum | None, max_length=8: a member, or the value of one
StatusField(v) ==
    CASE v.kind = "none" -> Valid(v)
      [] v.kind \in {"enum", "str"} ->
            IF v.val \in StatusValues /\ Len(v.val) <= StatusMaxLength
            THEN Valid(EnumV(v.val)) ELSE Invalid
      [] v.kind \in {"int", "float", "decimal", "datetime", "dict", "list", "model"} -> Invalid

\* datetime | None: a datetime, ISO 8601 text, or a date (its midnight)
DateTimeField(v) ==
    CASE v.kind \in {"none", "datetime"} -> Valid(v)
      [] v.kind = "str"  -> ParseDateTime(v.val)
      [] v.kind = "date" -> Valid([kind |-> "datetime", val |-> v.val \o <<0, 0, 0, 0>>])
      [] v.kind \in {"dict", "list", "model"} -> Invalid

(* ------------------------------------------------------------------ *)
(* Construction: field validation, then validate_required_columns       *)
(* ------------------------------------------------------------------ *)

NoInst == [cls |-> "", vals |-> [f \in {} |-> None], fields_set |-> {}]

\* a ValidationError carries the fields whose values were rejected and, from the
\* required-column check, the list of required columns that are None
Ok(inst) == [ok |-> TRUE, inst |-> inst, errors |-> {}, missing |-> <<>>]
Failure(errors, missing) ==
    [ok |-> FALSE, inst |-> NoInst, errors |-> errors, missing |-> missing]

\* a required-column check that stops at the first missing column
RequiredFirstOnly(inst) ==
    IF \E i \in 1..Len(RequiredColumns(inst.cls)) : inst.vals[RequiredColumns(inst.cls)[i]] = None
    THEN <<RequiredColumns(inst.cls)[
             CHOOSE i \in 1..Len(RequiredColumns(inst.cls)) :
                /\ inst.vals[RequiredColumns(inst.cls)[i]] = None
                /\ \A j \in 1..(i - 1) : inst.vals[RequiredColumns(inst.cls)[j]] # None]>>
    ELSE <<>>

\* a required-column check that never finds anything missing
RequiredNeverMissing(inst) == <<>>

\* missing = [f for f in self._required_columns if getattr(self, f) is None]
validate_required_columns(inst) ==
    SelectSeq(RequiredColumns(inst.cls), LAMBDA f : inst.vals[f] = None)

\* Category | None: an instance is kept; a mapping is validated as a Category,
\* nested being the outcome of that validation
ModelField(v, nested) ==
    CASE v.kind \in {"none", "model"} -> Valid(v)
      [] v.kind = "dict" -> IF nested.ok THEN Valid(ModelV(nested.inst)) ELSE Invalid
      [] v.kind \in {"int", "float", "str", "decimal", "datetime", "list"} -> Invalid

\* the annotation and Field(...) of each declared field
ValidateField(cls, f, v, nested) ==
    CASE f \in {"id", "category_id"} -> IntField(v)
      [] f = "name"       -> StrField(v, 0, NameMaxLength)
      [] f = "nickname"   -> StrField(v, NicknameMinLength, NicknameMaxLength)
      [] f = "sku"        -> SkuField(v)
      [] f = "price"      -> PriceField(v)
      [] f = "status"     -> StatusField(v)
      [] f = "created_at" -> DateTimeField(v)
      [] f = "categories" -> ModelField(v, nested)

\* the model validator (mode="after"): the required columns of the instance
RequiredCheck(inst) ==
    IF validate_required_columns(inst) # <<>>
    THEN Failure({}, validate_required_columns(inst))
    ELSE Ok(inst)

\* the outcome once every supplied field is checked: all the rejected fields
\* together, or else the instance, handed to the model validator
Validated(cls, supplied, checked) ==
    IF \E f \in supplied : ~checked[f].ok
    THEN Failure({f \in supplied : ~checked[f].ok}, <<>>)
    ELSE RequiredCheck([cls        |-> cls,
                        vals       |-> [f \in FieldSet(cls) |->
                                          IF f \in supplied THEN checked[f].val ELSE None],
                        fields_set |-> supplied])

\* model validation: every supplied field is validated; keys that name no field
\* are ignored; fields not supplied take their default, None
ValidateModel(cls, kw, nested) ==
    Validated(cls, FieldSet(cls) \cap DOMAIN kw,
              [f \in FieldSet(cls) \cap DOMAIN kw |-> ValidateField(cls, f, kw[f], nested)])

\* cls(**kw); a mapping supplied for the relation field categories is validated
\* as a Category first (a Category has no relation field of its own)
Construct(cls, kw) ==
    LET nested == IF /\ cls = "Product"
                     /\ "categories" \in DOMAIN kw
                     /\ kw["categories"].kind = "dict"
                  THEN ValidateModel("Category", kw["categories"].val, Failure({}, <<>>))
                  ELSE Failure({}, <<>>)
    IN  ValidateModel(cls, kw, nested)

(* ------------------------------------------------------------------ *)
(* dump                                                                 *)
(* ------------------------------------------------------------------ *)

\* what model_dump makes of a serializer's return value: a nested model becomes
\* the mapping of all its fields, each through its own field serializer
ToPython(v) ==
    IF v.kind = "model"
    THEN DictV([f \in FieldSet(v.val.cls) |-> serialize_fields(v.val.vals[f])])
    ELSE v

model_dump(inst, exclude) ==
    [f \in FieldSet(inst.cls) \ exclude |-> ToPython(serialize_fields(inst.vals[f]))]

\* a dump that leaves out the fields explicitly set to None
DumpNoNulls(inst) ==
    model_dump(inst, {f \in FieldSet(inst.cls) :
                        f \notin inst.fields_set \/ inst.vals[f] = None})

dump(inst) ==
    LET field_names == FieldSet(inst.cls)
        exclude_set == {f \in field_names : f \notin inst.fields_set}
    IN  model_dump(inst, exclude_set)

\* __setattr__ of a declared field: stored as given (assignments are not
\* validated) and recorded as set
SetAttr(inst, f, v) ==
    [inst EXCEPT !.vals[f] = v, !.fields_set = @ \cup {f}]

(* ------------------------------------------------------------------ *)
(* load                                                                 *)
(* ------------------------------------------------------------------ *)

\* the outcome of load: one instance, or a list of them, or the error raised
Loaded(isList, insts) ==
    [ok |-> TRUE, isList |-> isList, insts |-> insts, errors |-> {}, missing |-> <<>>]
LoadFailure(r) ==
    [ok |-> FALSE, isList |-> FALSE, insts |-> <<>>, errors |-> r.errors,
     missing |-> r.missing]

\* a list load that drops the records that fail
RECURSIVE LoadRowsSkipping(_, _, _)
LoadRowsSkipping(cls, rows, acc) ==
    IF rows = <<>> THEN Loaded(TRUE, acc)
    ELSE LET r == Construct(cls, Head(rows).val)
         IN  LoadRowsSkipping(cls, Tail(rows), IF r.ok THEN Append(acc, r.inst) ELSE acc)

\* a list load that builds the list back to front
RECURSIVE LoadRowsReversed(_, _, _)
LoadRowsReversed(cls, rows, acc) ==
    IF rows = <<>> THEN Loaded(TRUE, acc)
    ELSE LET r == Construct(cls, Head(rows).val)
         IN  IF r.ok THEN LoadRowsReversed(cls, Tail(rows), <<r.inst>> \o acc)
             ELSE LoadFailure(r)

\* [cls(**record) for record in data]: the first record that fails raises
RECURSIVE LoadRows(_, _, _)
LoadRows(cls, rows, acc) ==
    IF rows = <<>> THEN Loaded(TRUE, acc)
    ELSE LET r == Construct(cls, Head(rows).val)
         IN  IF r.ok THEN LoadRows(cls, Tail(rows), Append(acc, r.inst))
             ELSE LoadFailure(r)

\* data = getattr(response_or_data, "data", response_or_data)
Unwrap(x) == IF x.kind = "response" THEN x.val ELSE x

\* a load that wraps a single instance in a list
LoadAlwaysList(cls, x) ==
    LET data == Unwrap(x)
    IN  IF data.kind = "list" THEN LoadRows(cls, data.val, <<>>)
        ELSE LoadRows(cls, <<data>>, <<>>)

load(cls, x) ==
    LET data == Unwrap(x)
    IN  IF data.kind = "list" THEN LoadRows(cls, data.val, <<>>)
        ELSE LET r == Construct(cls, data.val)
             IN  IF r.ok THEN Loaded(FALSE, <<r.inst>>) ELSE LoadFailure(r)

(* ------------------------------------------------------------------ *)
(* Inputs: the values callers supply, per field                         *)
(* ------------------------------------------------------------------ *)

\* text of n characters
TextOfLen(n) == [i \in 1..n |-> "x"]

CategoryRow1 == ("name" :> Str(<<"B", "o", "o", "k", "s">>))
CategoryRow2 ==
    ("id" :> IntV(1)) @@ ("name" :> Str(<<"B", "o", "o", "k", "s">>)) @@ ("nickname" :> Str(<<"b", "o", "o", "k">>))
\* no name, and a nickname that is too short
CategoryRowBad == ("nickname" :> Str(<<"a", "b", "c">>))

Samples(cls, key) ==
    CASE key \in {"id", "category_id"} ->
            {None, IntV(7), Str(<<"5">>), Str(<<"a", "b", "c">>)}
      [] key = "name" ->
            {None, Str(<<"T", "e", "a">>), Str(TextOfLen(NameMaxLength)),
             Str(TextOfLen(NameMaxLength + 1)), IntV(42)}
      [] key = "nickname" ->
            {None, Str(TextOfLen(NicknameMinLength)), Str(TextOfLen(NicknameMinLength - 1)),
             Str(TextOfLen(NicknameMaxLength)), Str(TextOfLen(NicknameMaxLength + 1)),
             IntV(1234)}
      [] key = "sku" ->
            {None, Str(<<"A", "B", "-", "1", "2", "3">>), Str(<<"A", "B", "C", "-", "1", "2", "3", "4">>), Str(<<"A", "B", "-", "1", "2">>),
             Str(<<"a", "b", "-", "1", "2", "3">>), Str(<<"A", "B", "C", "D", "-", "1", "2", "3">>), Str(<<"A", "B", "1", "2", "3", "4">>),
             Str(<<"A", "B", "-", "1", "2", "3", "4", "5", "6", "7", "8", "9", "0", "1", "2", "3", "4", "5", "6", "7", "8">>), IntV(42)}
      [] key = "price" ->
            {None, DecimalV(0, 1099, -2), DecimalV(0, 250, -2), DecimalV(0, 1, 2),
             DecimalV(0, 5, -1), DecimalV(0, 1, 0), FloatV(1099), FloatV(50),
             FloatV(100), Str(<<"1", "0", ".", "9", "9">>), Str(<<"a", "b", "c">>)}
      [] key = "status" ->
            {None, EnumV(<<"d", "r", "a", "f", "t">>), Str(<<"a", "c", "t", "i", "v", "e">>), Str(<<"a", "r", "c", "h", "i", "v", "e", "d">>),
             Str(<<"d", "e", "l", "e", "t", "e", "d">>), IntV(1)}
      [] key = "created_at" ->
            {None, DateTimeV(2024, 1, 2, 3, 4, 5, 0), DateTimeV(2024, 2, 29, 23, 59, 58, 120),
             Str(<<"2", "0", "2", "4", "-", "0", "1", "-", "0", "2", "T", "0", "3", ":", "0", "4", ":", "0", "5">>), Str(<<"2", "0", "2", "4", "-", "0", "1", "-", "0", "2">>), Str(<<"2", "0", "2", "4", "-", "1", "3", "-", "0", "1", "T", "0", "0", ":", "0", "0", ":", "0", "0">>), Str(<<"a", "b", "c">>)}
      [] key = "categories" ->
            {None, DictV(CategoryRow1), DictV(CategoryRow2), DictV(CategoryRowBad)}
      [] key = "extra" -> {Str(<<"a", "b", "c">>)}

\* the keys a caller may pass: the declared fields and one name that is no field
Keys(cls) == Fields(cls) \o <<"extra">>

EmptyKwargs == [k \in {} |-> None]

\* every choice of at most MaxSupplied keys, each with one of its sample values
RECURSIVE KwargsOver(_, _)
KwargsOver(cls, keys) ==
    IF keys = <<>> THEN {EmptyKwargs}
    ELSE LET rest == KwargsOver(cls, Tail(keys))
         IN  rest \cup
             {(Head(keys) :> v) @@ kw :
                 kw \in {r \in rest : Cardinality(DOMAIN r) < MaxSupplied},
                 v \in Samples(cls, Head(keys))}

Kwargs(cls) == KwargsOver(cls, Keys(cls))

\* a few constructions to start an instance's life from, for the runs that go on
\* to assign fields
BasicKwargs(cls) ==
    IF cls = "Category"
    THEN {EmptyKwargs, CategoryRow1, CategoryRow2,
          ("name" :> Str(<<"T", "e", "a">>)) @@ ("nickname" :> None) @@ ("extra" :> Str(<<"a", "b", "c">>))}
    ELSE {("name" :> Str(<<"T", "e", "a">>)),
          ("name" :> Str(<<"T", "e", "a">>)) @@ ("sku" :> Str(<<"A", "B", "-", "1", "2", "3">>)),
          ("name" :> Str(<<"T", "e", "a">>)) @@ ("sku" :> Str(<<"A", "B", "-", "1", "2", "3">>)) @@ ("price" :> None)
             @@ ("extra" :> Str(<<"a", "b", "c">>)),
          ("id" :> Str(<<"5">>)) @@ ("name" :> Str(<<"T", "e", "a">>)) @@ ("sku" :> Str(<<"A", "B", "C", "-", "1", "2", "3", "4">>))
             @@ ("price" :> DecimalV(0, 1099, -2))
             @@ ("created_at" :> DateTimeV(2024, 1, 2, 3, 4, 5, 0))
             @@ ("categories" :> DictV(CategoryRow1))}

\* Category(name="Books")
CategoryInst ==
    [cls        |-> "Category",
     vals       |-> [f \in FieldSet("Category") |-> IF f = "name" THEN CategoryRow1[f] ELSE None],
     fields_set |-> {"name"}]

\* the values assigned to fields after construction: assignments are not
\* validated, so a field can come to hold a value of any type
AssignVals ==
    {None, Str(<<"T", "e", "a">>), IntV(7), FloatV(1099), DecimalV(0, 1099, -2), DecimalV(0, 1, 2),
     DateTimeV(2024, 2, 29, 23, 59, 58, 120), DateV(2024, 1, 2), TimeV(3, 4, 5, 0),
     UuidV([i \in 1..32 |-> (i * 7) % 16]), BytesV(<<97, 98>>), BytesV(<<97, 98, 99, 255>>),
     EnumV(<<"d", "r", "a", "f", "t">>), ModelV(CategoryInst)}

\* raw rows as the backend returns them
Rows(cls) ==
    IF cls = "Category"
    THEN {DictV(CategoryRow1), DictV(CategoryRow2), DictV(CategoryRowBad),
          DictV(("id" :> Str(<<"5">>)) @@ ("name" :> Str(<<"T", "e", "a">>))),
          DictV(("name" :> Str(TextOfLen(NameMaxLength + 1))))}
    ELSE {DictV(("name" :> Str(<<"T", "e", "a">>)) @@ ("sku" :> Str(<<"A", "B", "-", "1", "2", "3">>))),
          DictV(("id" :> IntV(7)) @@ ("name" :> Str(<<"B", "o", "o", "k", "s">>)) @@ ("sku" :> Str(<<"A", "B", "C", "-", "1", "2", "3", "4">>))
                @@ ("price" :> FloatV(1099)) @@ ("status" :> Str(<<"a", "c", "t", "i", "v", "e">>))
                @@ ("created_at" :> Str(<<"2", "0", "2", "4", "-", "0", "1", "-", "0", "2", "T", "0", "3", ":", "0", "4", ":", "0", "5">>)) @@ ("categories" :> DictV(CategoryRow2))),
          DictV(("name" :> Str(<<"T", "e", "a">>))),
          DictV(("sku" :> Str(<<"A", "B", "-", "1", "2">>)) @@ ("price" :> FloatV(50)))}

\* what load is given: a raw row or a list of at most MaxRows raw rows, bare or
\* as the .data of a response
Payloads(cls) ==
    LET lists == UNION {[1..n -> Rows(cls)] : n \in 0..MaxRows}
        data  == Rows(cls) \cup {ListV(l) : l \in lists}
    IN  data \cup {ResponseV(d) : d \in data}

(* ------------------------------------------------------------------ *)
(* State: one caller's use of the layer                                 *)
(* ------------------------------------------------------------------ *)

VARIABLES
    op,        \* the last operation performed
    cls,       \* the entity definition it was called on
    args,      \* what Construct (the keyword arguments) or load (the payload) was given
    inst,      \* the instance the caller holds
    result,    \* the outcome of the last Construct or load
    dumped,    \* the mapping the last dump returned
    assigned,  \* the fields assigned since construction
    nassign    \* the number of assignments made

vars == <<op, cls, args, inst, result, dumped, assigned, nassign>>

Init ==
    /\ op = "init"
    /\ cls = ""
    /\ args = EmptyKwargs
    /\ inst = NoInst
    /\ result = Failure({}, <<>>)
    /\ dumped = EmptyKwargs
    /\ assigned = {}
    /\ nassign = 0

\* cls(**kw) for kw in K[cls]
ConstructFrom(K) ==
    /\ op = "init"
    /\ \E c \in Classes : \E kw \in K[c] :
          /\ op' = "construct"
          /\ cls' = c
          /\ args' = kw
          /\ result' = Construct(c, kw)
          /\ inst' = result'.inst
    /\ UNCHANGED <<dumped, assigned, nassign>>

ConstructOp == ConstructFrom([c \in Classes |-> Kwargs(c)])

ConstructBasic == ConstructFrom([c \in Classes |-> BasicKwargs(c)])

\* instance.f = v
SetAttrOp ==
    /\ op \in {"construct", "setattr"}
    /\ result.ok
    /\ nassign < MaxAssign
    /\ \E f \in FieldSet(cls) : \E v \in AssignVals :
          /\ inst' = SetAttr(inst, f, v)
          /\ assigned' = assigned \cup {f}
    /\ op' = "setattr"
    /\ nassign' = nassign + 1
    /\ UNCHANGED <<cls, args, result, dumped>>

\* instance.dump()
DumpOp ==
    /\ op \in {"construct", "setattr"}
    /\ result.ok
    /\ dumped' = dump(inst)
    /\ op' = "dump"
    /\ UNCHANGED <<cls, args, inst, result, assigned, nassign>>

\* cls.load(payload)
LoadOp ==
    /\ op = "init"
    /\ \E c \in Classes : \E x \in Payloads(c) :
          /\ cls' = c
          /\ args' = x
          /\ result' = load(c, x)
    /\ op' = "load"
    /\ UNCHANGED <<inst, dumped, assigned, nassign>>

\* cls.load(instance.dump()) on a freshly constructed instance
RoundTripOp ==
    /\ op = "construct"
    /\ result.ok
    /\ dumped' = dump(inst)
    /\ result' = load(cls, DictV(dumped'))
    /\ op' = "roundtrip"
    /\ UNCHANGED <<cls, args, inst, assigned, nassign>>

\* construction and loading, over the full range of supplied values
Next == ConstructOp \/ LoadOp \/ RoundTripOp

Spec == Init /\ [][Next]_vars

\* an instance's life: constructed, assigned to, dumped
NextDump == ConstructBasic \/ SetAttrOp \/ DumpOp

SpecDump == Init /\ [][NextDump]_vars

(* ------------------------------------------------------------------ *)
(* Properties                                                           *)
(* ------------------------------------------------------------------ *)

\* the elements of a sequence
Range(q) == {q[i] : i \in 1..Len(q)}

\* the keyword arguments the last Construct, or load of a single mapping, was given
GivenKwargs ==
    IF op = "construct" THEN args
    ELSE IF args.kind = "response" THEN args.val.val ELSE args.val

\* the last operation built one instance from one mapping
BuiltOne ==
    \/ op = "construct"
    \/ op = "load" /\ (IF args.kind = "response" THEN args.val.kind ELSE args.kind) = "dict"

\* the payload of the last load, out of its envelope if it came in one
GivenData == IF args.kind = "response" THEN args.val ELSE args

\* the required fields, as the entity definitions list them
RequiredOf(c) == IF c = "Category" THEN {"name"} ELSE {"name", "sku"}

\* the required fields the caller left out or supplied as None
NullRequired(c, kw) == {f \in RequiredOf(c) : f \notin DOMAIN kw \/ kw[f] = None}

(* C1: after a successful Construct and any assignments, dump returns a mapping
   whose keys are exactly the declared fields the caller supplied at
   construction or assigned afterwards: an unset field is absent although it
   holds its default, a set field is present even when set to None. *)
C1_DumpKeysAreSetFields ==
    op = "dump" =>
        DOMAIN dumped = ((DOMAIN args) \cap FieldSet(cls)) \cup assigned

\* a dump after an assignment, holding an explicit None and leaving a field out
C1_Witness ==
    /\ op = "dump"
    /\ assigned # {}
    /\ \E f \in DOMAIN dumped : dumped[f] = None /\ f \notin assigned
    /\ \E f \in FieldSet(cls) : f \notin DOMAIN dumped /\ inst.vals[f] = None

RequiredSet(i) ==
    /\ \A f \in RequiredOf(i.cls) : i.vals[f] # None
    /\ (i.cls = "Product" /\ i.vals["categories"].kind = "model") =>
           i.vals["categories"].val.vals["name"] # None

(* C3: every instance a successful Construct returns, and every instance a
   successful load returns, has all the required fields of its entity
   definition non-null (name for Category; name and sku for Product). *)
C3_RequiredNonNull ==
    /\ (op = "construct" /\ result.ok) => (inst.cls = cls /\ RequiredSet(inst))
    /\ (op \in {"load", "roundtrip"} /\ result.ok) =>
           \A i \in 1..Len(result.insts) :
               result.insts[i].cls = cls /\ RequiredSet(result.insts[i])

\* a list of two Products loaded
C3_Witness ==
    /\ op = "load"
    /\ cls = "Product"
    /\ result.ok
    /\ Len(result.insts) = 2

(* C4: load of N valid raw rows (N >= 0), in a response or bare, returns a list
   of exactly N instances of the class, the i-th built from the i-th row. *)
C4_LoadKeepsOrder ==
    (/\ op = "load"
     /\ GivenData.kind = "list"
     /\ \A i \in 1..Len(GivenData.val) : Construct(cls, GivenData.val[i].val).ok) =>
        /\ result.ok
        /\ result.isList
        /\ Len(result.insts) = Len(GivenData.val)
        /\ \A i \in 1..Len(GivenData.val) :
              result.insts[i] = Construct(cls, GivenData.val[i].val).inst

\* a response holding two different valid rows, loaded
C4_Witness ==
    /\ op = "load"
    /\ args.kind = "response"
    /\ args.val.kind = "list"
    /\ result.ok
    /\ Len(result.insts) = 2
    /\ result.insts[1] # result.insts[2]

(* C5: load of a single valid raw mapping, bare or as the .data of a response,
   returns exactly one instance and no list; load returns a list exactly when
   the payload, out of its envelope, is a list. *)
C5_SingleOrList ==
    op = "load" =>
        /\ (GivenData.kind = "dict" /\ Construct(cls, GivenData.val).ok) =>
              /\ result.ok
              /\ ~result.isList
              /\ result.insts = <<Construct(cls, GivenData.val).inst>>
        /\ result.ok => (result.isList <=> GivenData.kind = "list")

\* a response whose .data is one mapping, loaded as one instance
C5_Witness ==
    /\ op = "load"
    /\ args.kind = "response"
    /\ args.val.kind = "dict"
    /\ result.ok
    /\ ~result.isList

\* the rows of the loaded list that fail validation
FailingRows == {i \in 1..Len(GivenData.val) : ~Construct(cls, GivenData.val[i].val).ok}

\* the first of them
FirstFailing == CHOOSE i \in FailingRows : \A j \in FailingRows : i <= j

(* C6: load of a list in which some row fails validation fails as a whole: no
   instance is returned, and the error is that of the first failing row. *)
C6_LoadAllOrNothing ==
    (op = "load" /\ GivenData.kind = "list" /\ FailingRows # {}) =>
        /\ ~result.ok
        /\ result.insts = <<>>
        /\ result.errors = Construct(cls, GivenData.val[FirstFailing].val).errors
        /\ result.missing = Construct(cls, GivenData.val[FirstFailing].val).missing

\* a valid row followed by a failing one: nothing is returned
C6_Witness ==
    /\ op = "load"
    /\ GivenData.kind = "list"
    /\ Len(GivenData.val) = 2
    /\ FailingRows = {2}
    /\ ~result.ok

\* two field values hold the same data (a nested instance: the same class and
\* the same value in every field)
SameValue(a, b) ==
    IF a.kind = "model" /\ b.kind = "model"
    THEN a.val.cls = b.val.cls /\ a.val.vals = b.val.vals
    ELSE a = b

(* C7: for every successfully constructed instance x, load(dump(x)) succeeds
   and returns one instance of the same class with the same value in every
   declared field, whose dump has the keys and values of dump(x). *)
C7_RoundTrip ==
    op = "roundtrip" =>
        /\ result.ok
        /\ ~result.isList
        /\ Len(result.insts) = 1
        /\ result.insts[1].cls = inst.cls
        /\ \A f \in FieldSet(cls) : SameValue(result.insts[1].vals[f], inst.vals[f])
        /\ dump(result.insts[1]) = dumped

\* a Product whose price is the Decimal 2.50, dumped as text and read back
C7_Witness ==
    /\ op = "roundtrip"
    /\ cls = "Product"
    /\ inst.vals["price"] = DecimalV(0, 250, -2)
    /\ dumped["price"] = Str(<<"2", ".", "5", "0">>)
    /\ result.ok

\* what Python writes for the special values the runs assign or construct
KnownText(v) ==
    CASE v = DecimalV(0, 1099, -2) -> <<"1", "0", ".", "9", "9">>
      [] v = DecimalV(0, 1, 2) -> <<"1", "E", "+", "2">>
      [] v = DateTimeV(2024, 1, 2, 3, 4, 5, 0) -> <<"2", "0", "2", "4", "-", "0", "1", "-", "0", "2", "T", "0", "3", ":", "0", "4", ":", "0", "5">>
      [] v = DateTimeV(2024, 2, 29, 23, 59, 58, 120) ->
            <<"2", "0", "2", "4", "-", "0", "2", "-", "2", "9", "T", "2", "3", ":", "5", "9", ":", "5", "8", ".", "0", "0", "0", "1", "2", "0">>
      [] v = DateV(2024, 1, 2) -> <<"2", "0", "2", "4", "-", "0", "1", "-", "0", "2">>
      [] v = TimeV(3, 4, 5, 0) -> <<"0", "3", ":", "0", "4", ":", "0", "5">>
      [] v = UuidV([i \in 1..32 |-> (i * 7) % 16]) ->
            <<"7", "e", "5", "c", "3", "a", "1", "8", "-", "f", "6", "d", "4", "-", "b", "2", "9", "0", "-", "7", "e", "5", "c", "-", "3", "a", "1", "8", "f", "6", "d", "4", "b", "2", "9", "0">>
      [] v = BytesV(<<97, 98>>) -> <<"Y", "W", "I", "=">>
      [] v = BytesV(<<97, 98, 99, 255>>) -> <<"Y", "W", "J", "j", "/", "w", "=", "=">>

(* C8 as stated: every value in dump's output is its field's value serialized by
   type: timestamp, date, time, Decimal, UUID and bytes as their text, and a
   value of any other type unchanged. *)
C8_OthersAllUnchanged ==
    op = "dump" =>
        \A f \in DOMAIN dumped :
            IF inst.vals[f].kind \in {"datetime", "date", "time", "decimal", "uuid", "bytes"}
            THEN dumped[f] = Str(KnownText(inst.vals[f]))
            ELSE dumped[f] = inst.vals[f]

(* C8, amended: every value in dump's output is its field's value serialized by
   type: timestamp, date, time, Decimal, UUID and bytes as their text
   (Decimal("10.99") as "10.99", b"ab" as "YWI="); a nested record (the
   categories relation) as the mapping of all its declared fields; a value of
   any other type unchanged. *)
C8_SerializedByType ==
    op = "dump" =>
        \A f \in DOMAIN dumped :
            IF inst.vals[f].kind \in {"datetime", "date", "time", "decimal", "uuid", "bytes"}
            THEN dumped[f] = Str(KnownText(inst.vals[f]))
            ELSE IF inst.vals[f].kind = "model"
            THEN dumped[f] = DictV([g \in {"id", "name", "nickname"} |->
                                        inst.vals[f].val.vals[g]])
            ELSE dumped[f] = inst.vals[f]

\* b"ab" assigned to a field and dumped as "YWI="
C8_Witness ==
    /\ op = "dump"
    /\ \E f \in DOMAIN dumped :
          inst.vals[f] = BytesV(<<97, 98>>) /\ dumped[f] = Str(<<"Y", "W", "I", "=">>)
    /\ \E f \in DOMAIN dumped : inst.vals[f].kind = "model"

\* the sample sku texts that match ^[A-Z]{2,3}-[0-9]{3,4}$
MatchingSkus == {<<"A", "B", "-", "1", "2", "3">>, <<"A", "B", "C", "-", "1", "2", "3", "4">>}

\* the sample prices that are not greater than 1
PricesNotAboveOne == {DecimalV(0, 5, -1), DecimalV(0, 1, 0), FloatV(50), FloatV(100)}

\* Construct was given value v for field f, rejected it, and built nothing
Rejected(f) == ~result.ok /\ f \in result.errors /\ inst = NoInst

(* C9: Construct rejects, with an error on the field, a Product sku that does
   not match the pattern or is longer than 20 characters, a Product price not
   strictly greater than 1 (the boundary 1 included), a name longer than 100
   characters, a Category nickname shorter than 4 or longer than 14; no
   instance is created. *)
C9_ConstraintsRejected ==
    op = "construct" =>
        \A f \in DOMAIN args :
            /\ (cls = "Product" /\ f = "sku" /\ args[f].kind = "str"
                /\ (args[f].val \notin MatchingSkus \/ Len(args[f].val) > 20))
                  => Rejected(f)
            /\ (cls = "Product" /\ f = "price" /\ args[f] \in PricesNotAboveOne)
                  => Rejected(f)
            /\ (f = "name" /\ args[f].kind = "str" /\ Len(args[f].val) > 100)
                  => Rejected(f)
            /\ (cls = "Category" /\ f = "nickname" /\ args[f].kind = "str"
                /\ (Len(args[f].val) < 4 \/ Len(args[f].val) > 14))
                  => Rejected(f)

\* sku "AB-12" and the boundary price 1 supplied together: both are reported
C9_Witness ==
    /\ op = "construct"
    /\ cls = "Product"
    /\ DOMAIN args = {"name", "sku", "price"}
    /\ args["sku"] = Str(<<"A", "B", "-", "1", "2">>)
    /\ args["price"] = DecimalV(0, 1, 0)
    /\ result.errors = {"sku", "price"}

\* the fields declared as text and as whole numbers
TextFields == {"name", "sku", "nickname"}
IntFields == {"id", "category_id"}

\* the instance the last operation built
BuiltInst == IF op = "construct" THEN inst ELSE result.insts[1]

(* C10 as stated: whenever a supplied value's type does not match the field's
   declared type (text for an integer field, a number for a text field),
   construction fails. *)
C10_NeverCoerces ==
    BuiltOne =>
        \A f \in (DOMAIN GivenKwargs) \cap FieldSet(cls) :
            (\/ f \in IntFields /\ GivenKwargs[f].kind = "str"
             \/ f \in TextFields /\ GivenKwargs[f].kind = "int") => ~result.ok

(* C10, amended: Construct and load reject a number supplied for a text field,
   and text that does not spell a whole number supplied for an integer field,
   with an error on that field; text that spells a whole number ("5") supplied
   for an integer field is accepted and stored as that number. *)
C10_CoercesOnlyNumericText ==
    BuiltOne =>
        \A f \in (DOMAIN GivenKwargs) \cap FieldSet(cls) :
            /\ (f \in TextFields /\ GivenKwargs[f].kind = "int")
                  => (~result.ok /\ f \in result.errors)
            /\ (f \in IntFields /\ GivenKwargs[f] = Str(<<"a", "b", "c">>))
                  => (~result.ok /\ f \in result.errors)
            /\ (f \in IntFields /\ GivenKwargs[f] = Str(<<"5">>))
                  => (f \notin result.errors /\ (result.ok => BuiltInst.vals[f] = IntV(5)))

\* id="5" supplied and stored as the number 5
C10_Witness ==
    /\ op = "construct"
    /\ "id" \in DOMAIN args
    /\ args["id"] = Str(<<"5">>)
    /\ result.ok
    /\ inst.vals["id"] = IntV(5)

====
